---- MODULE Spec2Model ----
(***************************************************************************)
(* A model of the retrieval-augmented-generation chatbot: the ingestion    *)
(* pipeline (src/src/ingest.py), the retriever (src/src/retrieval.py) and  *)
(* the answer generator (src/src/rag_core.py, chatbot_groq.py, chatbot.py).*)
(*                                                                         *)
(* Text is a sequence of characters (small naturals).  The embedding model *)
(* and the FAISS index are external collaborators: an embedding is a       *)
(* one-dimensional integer vector and the index is a flat L2 index.        *)
(***************************************************************************)
EXTENDS Integers, Sequences, FiniteSets, TLC

VARIABLES
  dataDir,    \* the data directory: its PDF files, or NoFile
  disk,       \* vectorstore_dir: the directory, the index, the sidecar
  ing,        \* the running DocumentIngestor.ingest call
  runs,       \* ingest runs started so far
  retriever,  \* the Retriever object of the process
  bot,        \* the RAGChatbot object of the process
  call,       \* the running RAGChatbot.answer call
  prev,       \* the last answer call that returned
  sr,         \* the last direct Retriever.search call
  stats,      \* the last Retriever.get_stats result
  http,       \* the HTTP handler module: the last request and its response
  cli,        \* the chatbot command and its interactive loop
  split,      \* the last text given to the text splitter, and its chunks
  ui          \* the web UI session: its chatbot state and message history

vars == <<dataDir, disk, ing, runs, retriever, bot, call, prev, sr,
          stats, http, cli, split, ui>>

----------------------------------------------------------------------------
(* Bounds *)

MaxRuns == 2           \* ingest runs per behaviour
MaxK == 3              \* largest k passed to Retriever.search
MaxTextLen == 5        \* longest page text handed to the splitter on its own
MaxLines == 2          \* lines of a finite input stream before its end

----------------------------------------------------------------------------
(* Python's None, where the other values are strings and where they are   *)
(* records; k = None in a call of search                                   *)
None == "None"
Nil == [nil |-> TRUE]
DefaultK == -1

(* A file of vectorstore_dir: missing, damaged, or holding a value *)
NoFile == [st |-> "missing"]
Corrupt == [st |-> "corrupt"]
File(v) == [st |-> "ok", val |-> v]

(* The data directory: missing, or holding PDF files *)
NoDataDir == [exists |-> FALSE, files |-> <<>>]
DataDir(files) == [exists |-> TRUE, files |-> files]

(* Python's dict.get(key, default) on a record used as a dict *)
Get(d, key, default) == IF key \in DOMAIN d THEN d[key] ELSE default

Min(a, b) == IF a <= b THEN a ELSE b

RECURSIVE SumSeq(_)
SumSeq(s) == IF Len(s) = 0 THEN 0 ELSE Head(s) + SumSeq(Tail(s))

(* Texts are sequences of characters, characters are numbers, 0 is the    *)
(* blank                                                                   *)
Blank == 0

(* str.strip on a text *)
RECURSIVE LStripText(_)
LStripText(t) == IF Len(t) > 0 /\ Head(t) = Blank THEN LStripText(Tail(t)) ELSE t

RECURSIVE RStripText(_)
RStripText(t) ==
  IF Len(t) > 0 /\ t[Len(t)] = Blank THEN RStripText(SubSeq(t, 1, Len(t) - 1))
  ELSE t

StripText(t) == RStripText(LStripText(t))

----------------------------------------------------------------------------
(* The data directory: PDF files, each a sequence of page texts.  A file   *)
(* with ok = FALSE is one that PyPDFLoader fails to parse.                 *)

PdfA == [source |-> "a.pdf", ok |-> TRUE, pages |-> << <<1, 2, 3, 1, 2, 2, 3, 1, 1>> >>]
PdfB == [source |-> "b.pdf", ok |-> TRUE, pages |-> << <<3, 3>>, <<2>> >>]
PdfBlank == [source |-> "blank.pdf", ok |-> TRUE, pages |-> << <<>> >>]
PdfBad == [source |-> "bad.pdf", ok |-> FALSE, pages |-> << <<1>> >>]

DataDirs ==
  { NoDataDir, DataDir(<<>>), DataDir(<<PdfA>>), DataDir(<<PdfA, PdfB>>),
    DataDir(<<PdfBlank>>), DataDir(<<PdfA, PdfBad>>) }

(* The (chunk_size, chunk_overlap) pairs an ingest run may be given *)
ParamChoices ==
  { [chunk_size |-> 3, chunk_overlap |-> 1],
    [chunk_size |-> 2, chunk_overlap |-> 0] }

(* The default of the embedding_model parameter of both constructors *)
DefaultEmbeddingModel == "sentence-transformers/all-MiniLM-L6-v2"

(* Values a caller may pass for embedding_model *)
EmbeddingModels == {DefaultEmbeddingModel, "sentence-transformers/all-mpnet-base-v2"}

(* The embedding of a text under a model: a one-dimensional vector; the    *)
(* two models place the same text differently                              *)
Embed(embedding_model, text) ==
  IF embedding_model = DefaultEmbeddingModel THEN SumSeq(text)
  ELSE 2 * Len(text) + SumSeq(text)

(* Squared L2 distance of two embeddings, the score of IndexFlatL2 *)
Distance(u, v) == (u - v) * (u - v)

----------------------------------------------------------------------------
(* DocumentIngestor *)

(* PyPDFLoader: one Document per page, metadata source and page *)
PagesOf(pdf) ==
  [p \in 1..Len(pdf.pages) |->
     [page_content |-> pdf.pages[p],
      metadata |-> [source |-> pdf.source, page |-> p - 1]]]

RECURSIVE LoadAll(_)
LoadAll(files) ==
  IF Len(files) = 0 THEN <<>> ELSE PagesOf(Head(files)) \o LoadAll(Tail(files))

(* DirectoryLoader.load with the default silent_errors = False: a file     *)
(* that fails to parse raises out of load()                                *)
AllParse(files) == \A i \in 1..Len(files) : files[i].ok

(* RecursiveCharacterTextSplitter with keep_separator and strip_whitespace *)
(* at their defaults.  Of the separators "\n\n", "\n", " ", "" the texts   *)
(* here can hold the blank only, so a text is split at its blanks, or,     *)
(* having none, into its characters                                        *)

(* re.split at the blanks, each blank kept at the head of the piece that   *)
(* follows it, empty pieces dropped                                        *)
RECURSIVE SplitAtBlanks(_, _)
SplitAtBlanks(text, piece) ==
  IF Len(text) = 0 THEN (IF Len(piece) = 0 THEN <<>> ELSE <<piece>>)
  ELSE IF Head(text) = Blank
    THEN (IF Len(piece) = 0 THEN <<>> ELSE <<piece>>)
           \o SplitAtBlanks(Tail(text), <<Blank>>)
  ELSE SplitAtBlanks(Tail(text), Append(piece, Head(text)))

(* list(text) *)
SplitChars(text) == [i \in 1..Len(text) |-> <<text[i]>>]

RECURSIVE JoinPieces(_)
JoinPieces(pieces) ==
  IF Len(pieces) = 0 THEN <<>> ELSE Head(pieces) \o JoinPieces(Tail(pieces))

(* _join_docs: the pieces joined and stripped; nothing for an empty text *)
JoinDocs(pieces) ==
  LET text == StripText(JoinPieces(pieces))
  IN  IF Len(text) = 0 THEN <<>> ELSE <<text>>

(* A while loop of _merge_splits that keeps no piece for the overlap *)
RECURSIVE PopFront_KeepsNothing(_, _, _, _)
PopFront_KeepsNothing(current, len, size, overlap) ==
  IF Len(current) > 0
    THEN PopFront_KeepsNothing(Tail(current), len, size, overlap)
  ELSE current

(* The while loop of _merge_splits: pieces leave the front of the current  *)
(* window until what stays fits chunk_overlap and leaves room for the      *)
(* piece of length len                                                     *)
RECURSIVE PopFront(_, _, _, _)
PopFront(current, len, size, overlap) ==
  LET total == Len(JoinPieces(current))
  IN  IF total > overlap \/ (total + len > size /\ total > 0)
        THEN PopFront(Tail(current), len, size, overlap)
      ELSE current

(* _merge_splits with the separator "" *)
RECURSIVE MergeSplits(_, _, _, _)
MergeSplits(splits, current, size, overlap) ==
  IF Len(splits) = 0 THEN JoinDocs(current)
  ELSE LET d == Head(splits)
           total == Len(JoinPieces(current))
       IN  IF total + Len(d) > size /\ Len(current) > 0
             THEN JoinDocs(current)
                    \o MergeSplits(Tail(splits),
                                   Append(PopFront(current, Len(d), size, overlap), d),
                                   size, overlap)
           ELSE MergeSplits(Tail(splits), Append(current, d), size, overlap)

(* The loop of _split_text over the pieces: pieces shorter than chunk_size *)
(* are collected and merged, a longer one is split by the next separator,  *)
(* or kept whole when there is none                                        *)
RECURSIVE SplitPieces(_, _, _, _, _)
SplitPieces(splits, good, size, overlap, atBlanks) ==
  IF Len(splits) = 0
    THEN (IF Len(good) > 0 THEN MergeSplits(good, <<>>, size, overlap) ELSE <<>>)
  ELSE LET piece == Head(splits)
       IN  IF Len(piece) < size
             THEN SplitPieces(Tail(splits), Append(good, piece), size, overlap, atBlanks)
           ELSE (IF Len(good) > 0 THEN MergeSplits(good, <<>>, size, overlap) ELSE <<>>)
                  \o (IF atBlanks
                        THEN SplitPieces(SplitChars(piece), <<>>, size, overlap, FALSE)
                      ELSE <<piece>>)
                  \o SplitPieces(Tail(splits), <<>>, size, overlap, atBlanks)

(* split_text *)
SplitText(text, size, overlap) ==
  IF \E i \in 1..Len(text) : text[i] = Blank
    THEN SplitPieces(SplitAtBlanks(text, <<>>), <<>>, size, overlap, TRUE)
  ELSE SplitPieces(SplitChars(text), <<>>, size, overlap, FALSE)

(* split_documents: every chunk carries the metadata of its page *)
SplitDocument(doc, size, overlap) ==
  LET parts == SplitText(doc.page_content, size, overlap)
  IN  [i \in 1..Len(parts) |->
         [page_content |-> parts[i], metadata |-> doc.metadata]]

RECURSIVE chunk_documents(_, _, _)
chunk_documents(documents, size, overlap) ==
  IF Len(documents) = 0 THEN <<>>
  ELSE SplitDocument(Head(documents), size, overlap)
         \o chunk_documents(Tail(documents), size, overlap)

(* FAISS.from_documents: the in-memory store, one vector per chunk *)
create_vectorstore(chunks, embedding_model) ==
  [docs |-> chunks,
   vectors |-> [i \in 1..Len(chunks) |->
                  Embed(embedding_model, chunks[i].page_content)]]

(* The sidecar record of save_vectorstore *)
SidecarOf(vectorstore, params) ==
  [num_chunks |-> Len(vectorstore.docs),
   chunk_size |-> params.chunk_size,
   chunk_overlap |-> params.chunk_overlap]

IngIdle ==
  [pc |-> "idle", params |-> Nil, embedding_model |-> None, documents |-> <<>>, chunks |-> <<>>,
   vectorstore |-> Nil, outcome |-> None, error |-> None,
   steps |-> <<>>, log |-> <<>>, before |-> Nil]

(* ingest with an except clause that prints the error and does not        *)
(* re-raise                                                                *)
IngestRaise_Swallowed(st, err) ==
  [st EXCEPT !.pc = "done", !.outcome = "returned", !.error = err,
             !.log = @ \o <<"Error during ingestion">>]

(* The except clause of ingest: print the error and re-raise *)
IngestRaise(st, err) ==
  [st EXCEPT !.pc = "done", !.outcome = "raised", !.error = err,
             !.log = @ \o <<"Error during ingestion">>]

(* ingest() is entered *)
IngestStart ==
  /\ ing.pc = "idle"
  /\ runs < MaxRuns
  /\ \E p \in ParamChoices, m \in EmbeddingModels :
       ing' = [IngIdle EXCEPT !.pc = "load", !.params = p,
                              !.embedding_model = m, !.before = disk]
  /\ runs' = runs + 1
  /\ UNCHANGED <<dataDir, disk, retriever, bot, call, prev, sr, stats, http, cli, split, ui>>

(* ingest without its zero-documents test *)
LoadStep_NoEmptyTest(st, dd) ==
  IF ~dd.exists THEN IngestRaise(st, "FileNotFoundError")
  ELSE IF ~AllParse(dd.files) THEN IngestRaise(st, "ParseError")
  ELSE [st EXCEPT !.pc = "chunk", !.documents = LoadAll(dd.files)]

(* load_documents, then the zero-documents test of ingest *)
LoadStep(st, dd) ==
  IF ~dd.exists THEN IngestRaise(st, "FileNotFoundError")
  ELSE IF ~AllParse(dd.files) THEN IngestRaise(st, "ParseError")
  ELSE IF Len(LoadAll(dd.files)) = 0
    THEN [st EXCEPT !.pc = "done", !.outcome = "returned",
                    !.documents = LoadAll(dd.files),
                    !.log = @ \o <<"No documents found">>]
  ELSE [st EXCEPT !.pc = "chunk", !.documents = LoadAll(dd.files)]

(* Step 1 of ingest *)
load_documents ==
  /\ ing.pc = "load"
  /\ ing' = LoadStep([ing EXCEPT !.steps = @ \o <<"load">>], dataDir)
  /\ UNCHANGED <<dataDir, disk, runs, retriever, bot, call, prev, sr, stats, http, cli, split, ui>>

(* Step 2: chunk_documents *)
IngestChunk ==
  /\ ing.pc = "chunk"
  /\ ing' = [ing EXCEPT !.pc = "embed", !.steps = @ \o <<"chunk">>,
                        !.chunks = chunk_documents(ing.documents,
                                      ing.params.chunk_size,
                                      ing.params.chunk_overlap)]
  /\ UNCHANGED <<dataDir, disk, runs, retriever, bot, call, prev, sr, stats, http, cli, split, ui>>

(* Step 3: create_vectorstore.  Embedding may fail; FAISS.from_documents   *)
(* raises on an empty chunk list                                           *)
IngestEmbed ==
  /\ ing.pc = "embed"
  /\ LET st == [ing EXCEPT !.steps = @ \o <<"embed">>]
     IN  \/ ing' = IngestRaise(st, "EmbeddingError")
         \/ /\ Len(ing.chunks) = 0
            /\ ing' = IngestRaise(st, "IndexError")
         \/ /\ Len(ing.chunks) > 0
            /\ ing' = [st EXCEPT !.pc = "mkdir",
                                 !.vectorstore =
                                   create_vectorstore(ing.chunks,
                                                      ing.embedding_model)]
  /\ UNCHANGED <<dataDir, disk, runs, retriever, bot, call, prev, sr, stats, http, cli, split, ui>>

(* Step 4, save_vectorstore: vectorstore_dir.mkdir(exist_ok, parents) *)
SaveMkdir ==
  /\ ing.pc = "mkdir"
  /\ LET st == [ing EXCEPT !.steps = @ \o <<"mkdir">>]
     IN  \/ /\ ing' = IngestRaise(st, "OSError")
            /\ UNCHANGED disk
         \/ /\ ing' = [st EXCEPT !.pc = "save_index"]
            /\ disk' = [disk EXCEPT !.dirExists = TRUE]
  /\ UNCHANGED <<dataDir, runs, retriever, bot, call, prev, sr, stats, http, cli, split, ui>>

(* save_vectorstore: vectorstore.save_local.  A failed write leaves the    *)
(* old index in place or a damaged one                                     *)
SaveIndex ==
  /\ ing.pc = "save_index"
  /\ LET st == [ing EXCEPT !.steps = @ \o <<"save_index">>]
     IN  \/ /\ ing' = IngestRaise(st, "OSError")
            /\ \/ UNCHANGED disk
               \/ disk' = [disk EXCEPT !.index = Corrupt, !.indexBy = runs]
         \/ /\ ing' = [st EXCEPT !.pc = "save_meta"]
            /\ disk' = [disk EXCEPT !.index = File(ing.vectorstore),
                                    !.indexBy = runs]
  /\ UNCHANGED <<dataDir, runs, retriever, bot, call, prev, sr, stats, http, cli, split, ui>>

(* save_vectorstore: pickle.dump of the metadata record, then the return   *)
(* of ingest.  A failed write leaves the old sidecar or a damaged one      *)
SaveMetadata ==
  /\ ing.pc = "save_meta"
  /\ LET st == [ing EXCEPT !.steps = @ \o <<"save_meta">>]
     IN  \/ /\ ing' = IngestRaise(st, "OSError")
            /\ \/ UNCHANGED disk
               \/ disk' = [disk EXCEPT !.sidecar = Corrupt, !.sidecarBy = runs]
         \/ /\ ing' = [st EXCEPT !.pc = "done", !.outcome = "returned",
                                 !.log = @ \o <<"Ingestion Complete">>]
            /\ disk' = [disk EXCEPT
                          !.sidecar = File(SidecarOf(ing.vectorstore, ing.params)),
                          !.sidecarBy = runs]
  /\ UNCHANGED <<dataDir, runs, retriever, bot, call, prev, sr, stats, http, cli, split, ui>>

(* The process that ran ingest ends; another run may follow *)
IngestExit ==
  /\ ing.pc = "done"
  /\ ing' = IngIdle
  /\ UNCHANGED <<dataDir, disk, runs, retriever, bot, call, prev, sr, stats, http, cli, split, ui>>

(* No request handled, no command started, no text split yet *)
NoHttp == [loaded |-> FALSE, log |-> <<>>, req |-> Nil, responses |-> <<>>, calls |-> <<>>]

NoCli ==
  [pc |-> "none", exit |-> None, event |-> None, line |-> <<>>,
   calls |-> <<>>, out |-> <<>>, read |-> 0]

NoSplit == [text |-> <<>>, params |-> Nil, chunks |-> <<>>]

(* The web UI session before its first script run: no chatbot loaded, and
   no message history in the session state. *)
NoUi == [pc |-> "new", messages |-> <<>>, last |-> "none"]

----------------------------------------------------------------------------
(* Retriever *)

(* Stores that may already lie in vectorstore_dir, built by other means:   *)
(* an empty index, and one whose first chunk carries no source             *)
EmptyStore == [docs |-> <<>>, vectors |-> <<>>]

ForeignStore ==
  create_vectorstore(
    << [page_content |-> <<2>>, metadata |-> [page |-> 0]],
       [page_content |-> <<1, 1>>, metadata |-> [source |-> "x.pdf", page |-> 0]],
       [page_content |-> <<3>>, metadata |-> [source |-> "x.pdf", page |-> 1]] >>,
    DefaultEmbeddingModel)

Queries == { <<1>>, <<3, 3>> }

TopKs == {1, 4}

EmptyDict == [empty |-> TRUE]

NoRetriever ==
  [status |-> "none", error |-> None, top_k |-> 0, embedding_model |-> None,
   vectorstore |-> Nil, metadata |-> Nil, loadedBy |-> [index |-> 0, sidecar |-> 0]]

(* The error _load_vectorstore raises itself; what FAISS.load_local and    *)
(* pickle.load raise is theirs                                             *)
StoreNotFound == "FileNotFoundError: Vector store not found"

(* _load_vectorstore returning nothing, instead of raising, for a store    *)
(* it cannot load                                                          *)
load_vectorstore_Lenient(d) ==
  IF ~d.dirExists \/ d.index.st # "ok" THEN [ok |-> TRUE, val |-> Nil]
  ELSE [ok |-> TRUE, val |-> d.index.val]

(* _load_vectorstore: the existence check, then FAISS.load_local *)
load_vectorstore(d) ==
  IF ~d.dirExists THEN [ok |-> FALSE, err |-> StoreNotFound]
  ELSE IF d.index.st # "ok" THEN [ok |-> FALSE, err |-> "LoadError"]
  ELSE [ok |-> TRUE, val |-> d.index.val]

(* _load_metadata: the sidecar if it exists, else the empty dict *)
load_metadata(d) ==
  IF d.sidecar.st = "missing" THEN [ok |-> TRUE, val |-> EmptyDict]
  ELSE IF d.sidecar.st = "corrupt" THEN [ok |-> FALSE, err |-> "UnpicklingError"]
  ELSE [ok |-> TRUE, val |-> d.sidecar.val]

(* Retriever.__init__: an exception of either load leaves no object *)
RetrieverInit(d, top_k, embedding_model) ==
  LET vs == load_vectorstore(d)
      md == load_metadata(d)
  IN  IF ~vs.ok THEN [NoRetriever EXCEPT !.status = "failed", !.error = vs.err]
      ELSE IF ~md.ok THEN [NoRetriever EXCEPT !.status = "failed", !.error = md.err]
      ELSE [status |-> "loaded", error |-> None, top_k |-> top_k,
            embedding_model |-> embedding_model,
            vectorstore |-> vs.val, metadata |-> md.val,
            loadedBy |-> [index |-> d.indexBy, sidecar |-> d.sidecarBy]]

(* The flat L2 index: the k nearest vectors, nearest first, ties by        *)
(* position in the index; fewer than k when the index holds fewer          *)
Nearer(store, qv, i, j) ==
  \/ Distance(store.vectors[i], qv) < Distance(store.vectors[j], qv)
  \/ /\ Distance(store.vectors[i], qv) = Distance(store.vectors[j], qv)
     /\ i <= j

RECURSIVE Nearest(_, _, _, _)
Nearest(store, qv, S, k) ==
  IF k = 0 \/ S = {} THEN <<>>
  ELSE LET b == CHOOSE i \in S : \A j \in S : Nearer(store, qv, i, j)
       IN  <<b>> \o Nearest(store, qv, S \ {b}, k - 1)

similarity_search_with_score(store, embeddings, query, k) ==
  LET qv == Embed(embeddings, query)
      ids == Nearest(store, qv, DOMAIN store.docs, k)
  IN  [n \in 1..Len(ids) |->
         [doc |-> store.docs[ids[n]],
          score |-> Distance(store.vectors[ids[n]], qv),
          id |-> ids[n]]]

(* A formatting loop that reads the source under a wrong key *)
FormatResults_WrongKey(results) ==
  [n \in 1..Len(results) |->
     [content |-> results[n].doc.page_content,
      metadata |-> results[n].doc.metadata,
      score |-> results[n].score,
      source |-> Get(results[n].doc.metadata, "Source", "Unknown")]]

(* The formatting loop of Retriever.search *)
FormatResults(results) ==
  [n \in 1..Len(results) |->
     [content |-> results[n].doc.page_content,
      metadata |-> results[n].doc.metadata,
      score |-> results[n].score,
      source |-> Get(results[n].doc.metadata, "source", "Unknown")]]

(* A search that hands back the results worst first *)
search_Reversed(r, query, k) ==
  LET kk == IF k = DefaultK THEN r.top_k ELSE k
  IN  IF r.vectorstore = Nil
        THEN [ok |-> FALSE, err |-> "AttributeError", k |-> kk,
              raw |-> <<>>, results |-> <<>>]
      ELSE LET raw == similarity_search_with_score(r.vectorstore, r.embedding_model,
                                                      query, kk)
               fmt == FormatResults(raw)
           IN  [ok |-> TRUE, err |-> None, k |-> kk, raw |-> raw,
                results |-> [n \in 1..Len(fmt) |-> fmt[Len(fmt) + 1 - n]]]

(* Retriever.search(query, k): k = None takes the default top_k.           *)
(* raw is what the vector store delivered, results what search returns     *)
search(r, query, k) ==
  LET kk == IF k = DefaultK THEN r.top_k ELSE k
  IN  IF r.vectorstore = Nil
        THEN [ok |-> FALSE, err |-> "AttributeError", k |-> kk,
              raw |-> <<>>, results |-> <<>>]
      ELSE LET raw == similarity_search_with_score(r.vectorstore, r.embedding_model,
                                                      query, kk)
           IN  [ok |-> TRUE, err |-> None, k |-> kk,
                raw |-> raw, results |-> FormatResults(raw)]

(* A Retriever is constructed on its own (retrieval.main, test_retrieval) *)
RetrieverNew ==
  /\ retriever.status = "none"
  /\ bot.status = "none"
  /\ \E k \in TopKs, m \in EmbeddingModels :
       retriever' = RetrieverInit(disk, k, m)
  /\ UNCHANGED <<dataDir, disk, ing, runs, bot, call, prev, sr, stats, http, cli, split, ui>>

(* Retriever.get_context: the search, then one labelled block per result *)
get_context(r, query, k) ==
  LET out == search(r, query, k)
  IN  [out EXCEPT !.results =
         [i \in 1..Len(out.results) |->
            [label |-> i, content |-> out.results[i].content]]]

(* Retriever.search called directly on that object *)
SearchCall ==
  /\ retriever.status = "loaded"
  /\ bot.status = "none"
  /\ \E q \in Queries, k \in (1..MaxK) \cup {DefaultK} :
       sr' = [op |-> "search", query |-> q, k |-> k, out |-> search(retriever, q, k)]
  /\ UNCHANGED <<dataDir, disk, ing, runs, retriever, bot, call, prev, stats, http, cli, split, ui>>

(* Retriever.get_context called directly on that object *)
GetContextCall ==
  /\ retriever.status = "loaded"
  /\ bot.status = "none"
  /\ \E q \in Queries, k \in (1..MaxK) \cup {DefaultK} :
       sr' = [op |-> "get_context", query |-> q, k |-> k,
              out |-> get_context(retriever, q, k)]
  /\ UNCHANGED <<dataDir, disk, ing, runs, retriever, bot, call, prev, stats, http, cli, split, ui>>

(* A get_stats that reads the overlap under the key of the size *)
get_stats_SwappedKeys(r) ==
  [total_chunks |-> Len(r.vectorstore.docs),
   chunk_size |-> Get(r.metadata, "chunk_size", "Unknown"),
   chunk_overlap |-> Get(r.metadata, "chunk_size", "Unknown"),
   embedding_model |-> DefaultEmbeddingModel]

(* Retriever.get_stats: total_chunks is index.ntotal of the loaded index,  *)
(* the two parameters come from the sidecar, the model name is a literal   *)
get_stats(r) ==
  [total_chunks |-> Len(r.vectorstore.docs),
   chunk_size |-> Get(r.metadata, "chunk_size", "Unknown"),
   chunk_overlap |-> Get(r.metadata, "chunk_overlap", "Unknown"),
   embedding_model |-> DefaultEmbeddingModel]

(* Retriever.get_stats called on that object *)
GetStatsCall ==
  /\ retriever.status = "loaded"
  /\ bot.status = "none"
  /\ stats' = get_stats(retriever)
  /\ UNCHANGED <<dataDir, disk, ing, runs, retriever, bot, call, prev, sr, http, cli, split, ui>>

----------------------------------------------------------------------------
(* RAGChatbot *)

Models == {"llama-3.2-3b-preview"}

ApiKeys == {None, "gsk"}

MaxTokens == 512

NoBot ==
  [status |-> "none", error |-> None, model |-> None, top_k |-> 0,
   temperature |-> None]

FallbackAnswer == <<"I couldn't find any relevant information in the documents.">>

ErrorPrefix == <<"Error generating answer: ">>

(* What one call of the generation API may do: return a text (a sequence   *)
(* of tokens, " " being whitespace), return no content, or raise with a    *)
(* message that may be empty                                               *)
GenOutcomes ==
  { [kind |-> "ok", content |-> <<"a">>],
    [kind |-> "ok", content |-> <<" ", "a", " ">>],
    [kind |-> "ok", content |-> <<" ">>],
    [kind |-> "no_content"],
    [kind |-> "raise", msg |-> <<>>],
    [kind |-> "raise", msg |-> <<"timeout">>] }

(* No generation call was made *)
NoGen == [kind |-> "not_called"]

(* str.strip *)
RECURSIVE LStrip(_)
LStrip(t) == IF Len(t) > 0 /\ Head(t) = " " THEN LStrip(Tail(t)) ELSE t

RECURSIVE RStrip(_)
RStrip(t) ==
  IF Len(t) > 0 /\ t[Len(t)] = " " THEN RStrip(SubSeq(t, 1, Len(t) - 1)) ELSE t

Strip(t) == RStrip(LStrip(t))

NoCall ==
  [pc |-> "idle", query |-> <<>>, return_sources |-> FALSE, results |-> <<>>,
   prompt |-> <<>>, gen |-> NoGen, events |-> <<>>, response |-> Nil,
   outcome |-> None, searched |-> FALSE]

(* RAGChatbot.__init__: the key check, the client, then the Retriever with *)
(* the default embedding model                                             *)
ChatbotInit(d, key, m, k) ==
  IF key = None
    THEN [bot |-> [NoBot EXCEPT !.status = "failed", !.error = "ValueError"],
          retriever |-> NoRetriever]
  ELSE LET r == RetrieverInit(d, k, DefaultEmbeddingModel)
       IN  [bot |-> IF r.status = "loaded"
                      THEN [status |-> "ready", error |-> None, model |-> m,
                            top_k |-> k, temperature |-> "0.1"]
                    ELSE [NoBot EXCEPT !.status = "failed", !.error = r.error],
            retriever |-> r]

(* A RAGChatbot is constructed by some caller *)
ChatbotNew ==
  /\ bot.status = "none"
  /\ retriever.status = "none"
  /\ http = NoHttp
  /\ cli = NoCli
  /\ \E key \in ApiKeys, m \in Models, k \in TopKs :
       LET new == ChatbotInit(disk, key, m, k)
       IN  bot' = new.bot /\ retriever' = new.retriever
  /\ UNCHANGED <<dataDir, disk, ing, runs, call, prev, sr, stats, http, cli, split, ui>>

(* A context whose labels start at 0 *)
Context_ZeroBased(results) ==
  [i \in 1..Len(results) |-> [label |-> i - 1, content |-> results[i].content]]

(* Step 2 of answer: the context string, one labelled entry per result *)
Context(results) ==
  [i \in 1..Len(results) |-> [label |-> (i - 1) + 1, content |-> results[i].content]]

(* _create_prompt *)
create_prompt(query, context) ==
  << [part |-> "intro"],
     [part |-> "context", sources |-> context],
     [part |-> "question", query |-> query],
     [part |-> "instructions"],
     [part |-> "answer"] >>

(* An except clause that returns the bare exception text *)
AnswerText_Bare(g) ==
  IF g.kind = "ok" THEN Strip(g.content)
  ELSE IF g.kind = "no_content"
    THEN <<"'NoneType' object has no attribute 'strip'">>
  ELSE g.msg

(* The try/except around the generation call: the answer text *)
AnswerText(g) ==
  IF g.kind = "ok" THEN Strip(g.content)
  ELSE IF g.kind = "no_content"
    THEN ErrorPrefix \o <<"'NoneType' object has no attribute 'strip'">>
  ELSE ErrorPrefix \o g.msg

(* A response record that counts the attached sources *)
ResponseData_CountsSources(b, query, return_sources, results, text) ==
  [answer |-> text,
   sources |-> IF return_sources THEN results ELSE <<>>,
   metadata |-> [retrieved_chunks |-> IF return_sources THEN Len(results) ELSE 0,
                 model |-> b.model,
                 query |-> query]]

(* Step 4 of answer: the response record *)
ResponseData(b, query, return_sources, results, text) ==
  [answer |-> text,
   sources |-> IF return_sources THEN results ELSE <<>>,
   metadata |-> [retrieved_chunks |-> Len(results),
                 model |-> b.model,
                 query |-> query]]

(* The early return of answer when nothing was retrieved *)
FallbackResponse ==
  [answer |-> FallbackAnswer,
   sources |-> <<>>,
   metadata |-> [retrieved_chunks |-> 0]]

(* answer(query, return_sources) is entered *)
AnswerStart ==
  /\ bot.status = "ready"
  /\ call.pc = "idle"
  /\ \E q \in Queries, rs \in BOOLEAN :
       call' = [NoCall EXCEPT !.pc = "search", !.query = q, !.return_sources = rs]
  /\ UNCHANGED <<dataDir, disk, ing, runs, retriever, bot, prev, sr, stats, http, cli, split, ui>>

(* answer testing the results against None instead of for emptiness *)
AfterSearch_NoShortCircuit(c, results) ==
  [c EXCEPT !.pc = "generate", !.results = results,
            !.prompt = create_prompt(c.query, Context(results))]

(* The empty test on the search results, then steps 2 and 3 up to the      *)
(* generation call                                                         *)
AfterSearch(c, results) ==
  IF Len(results) = 0
    THEN [c EXCEPT !.pc = "done", !.outcome = "returned", !.results = results,
                   !.response = FallbackResponse]
  ELSE [c EXCEPT !.pc = "generate", !.results = results,
                 !.prompt = create_prompt(c.query, Context(results))]

(* Step 1: retriever.search(query, k = top_k).  Embedding the query or     *)
(* searching may raise, and answer lets that through                       *)
AnswerSearch ==
  /\ call.pc = "search"
  /\ LET out == search(retriever, call.query, bot.top_k)
         c == [call EXCEPT !.searched = TRUE,
                 !.events = @ \o <<[api |-> "search", query |-> call.query,
                                    k |-> bot.top_k]>>]
     IN  \/ call' = [c EXCEPT !.pc = "done", !.outcome = "raised"]
         \/ /\ out.ok
            /\ call' = AfterSearch(c, out.results)
  /\ UNCHANGED <<dataDir, disk, ing, runs, retriever, bot, prev, sr, stats, http, cli, split, ui>>

(* The generation request of step 3 *)
GenRequest(b, c) ==
  [api |-> "generate", model |-> b.model, prompt |-> c.prompt,
   temperature |-> b.temperature, max_tokens |-> MaxTokens]

(* A generation step that tries once more after a failure *)
GenerateStep_Retry(b, c, g) ==
  IF g.kind = "raise" /\ Len(c.events) < 2
    THEN [c EXCEPT !.events = @ \o <<GenRequest(b, c)>>]
  ELSE [c EXCEPT !.pc = "done", !.outcome = "returned", !.gen = g,
                 !.events = @ \o <<GenRequest(b, c)>>,
                 !.response = ResponseData(b, c.query, c.return_sources,
                                           c.results, AnswerText(g))]

(* The generation call inside try/except with outcome g, then step 4 *)
GenerateStep(b, c, g) ==
  [c EXCEPT !.pc = "done", !.outcome = "returned", !.gen = g,
            !.events = @ \o <<GenRequest(b, c)>>,
            !.response = ResponseData(b, c.query, c.return_sources,
                                      c.results, AnswerText(g))]

(* Step 3 of answer *)
AnswerGenerate ==
  /\ call.pc = "generate"
  /\ \E g \in GenOutcomes : call' = GenerateStep(bot, call, g)
  /\ UNCHANGED <<dataDir, disk, ing, runs, retriever, bot, prev, sr, stats, http, cli, split, ui>>

(* An answer that leaves the chatbot with a smaller top_k than it had *)
AnswerReturn_LowersTopK ==
  /\ call.pc = "done"
  /\ prev' = IF call.outcome = "returned" THEN call ELSE prev
  /\ call' = NoCall
  /\ bot' = [bot EXCEPT !.top_k = 1]
  /\ UNCHANGED <<dataDir, disk, ing, runs, retriever, sr, stats, http, cli, split, ui>>

(* The caller takes the result; the call is remembered when it returned *)
AnswerReturn ==
  /\ call.pc = "done"
  /\ prev' = IF call.outcome = "returned" THEN call ELSE prev
  /\ call' = NoCall
  /\ UNCHANGED <<dataDir, disk, ing, runs, retriever, bot, sr, stats, http, cli, split, ui>>

(* An answer that lets a failure of the generation call through to its    *)
(* caller                                                                  *)
answer_FailHard(b, r, query, return_sources, searchRaises, g) ==
  LET c0 == [NoCall EXCEPT !.pc = "search", !.query = query,
                           !.return_sources = return_sources,
                           !.searched = TRUE,
                           !.events = <<[api |-> "search", query |-> query,
                                         k |-> b.top_k]>>]
      out == search(r, query, b.top_k)
      c1 == AfterSearch(c0, out.results)
  IN  IF searchRaises \/ ~out.ok
        THEN [c0 EXCEPT !.pc = "done", !.outcome = "raised"]
      ELSE IF c1.pc = "generate"
        THEN IF g.kind = "ok" THEN GenerateStep(b, c1, g)
             ELSE [c1 EXCEPT !.pc = "done", !.outcome = "raised", !.gen = g,
                             !.events = @ \o <<GenRequest(b, c1)>>]
      ELSE c1

(* answer(query, return_sources) from entry to exit, as its caller sees    *)
(* it: the search raises or not, the generation call has outcome g         *)
answer(b, r, query, return_sources, searchRaises, g) ==
  LET c0 == [NoCall EXCEPT !.pc = "search", !.query = query,
                           !.return_sources = return_sources,
                           !.searched = TRUE,
                           !.events = <<[api |-> "search", query |-> query,
                                         k |-> b.top_k]>>]
      out == search(r, query, b.top_k)
      c1 == AfterSearch(c0, out.results)
  IN  IF searchRaises \/ ~out.ok
        THEN [c0 EXCEPT !.pc = "done", !.outcome = "raised"]
      ELSE IF c1.pc = "generate" THEN GenerateStep(b, c1, g)
      ELSE c1

----------------------------------------------------------------------------
(* The HTTP function, api/query.py *)

(* JSON values, as json.loads delivers and json.dumps takes them *)
JNull == [t |-> "null"]

JStr(s) == [t |-> "string", s |-> s]

JNum(n) == [t |-> "number", n |-> n]

JArr(items) == [t |-> "array", items |-> items]

JObj(fields) == [t |-> "object", fields |-> fields]

(* request.body: no bytes, bytes that are no JSON text, or a JSON text *)
EmptyBody == [raw |-> "empty"]

InvalidBody == [raw |-> "invalid"]

JsonText(v) == [raw |-> "json", value |-> v]

Methods == {"OPTIONS", "POST", "GET", "DELETE"}

Bodies ==
  {EmptyBody, InvalidBody}
    \cup { JsonText(v) : v \in
             { JNull, JArr(<<>>), JStr(<<1>>), JNum(7),
               JObj([other |-> JNum(1)]),
               JObj([question |-> JNull]),
               JObj([question |-> JStr(<<>>)]),
               JObj([question |-> JNum(0)]),
               JObj([question |-> JNum(7)]) } }
    \cup { JsonText(JObj([question |-> JStr(q)])) : q \in Queries }

Requests == [method : Methods, body : Bodies]

Headers ==
  [ContentType |-> "application/json",
   AccessControlAllowOrigin |-> "*",
   AccessControlAllowMethods |-> "POST, OPTIONS",
   AccessControlAllowHeaders |-> "Content-Type"]

json_loads(body) ==
  IF body.raw = "json" THEN [ok |-> TRUE, val |-> body.value]
  ELSE [ok |-> FALSE, err |-> "JSONDecodeError"]

(* Python truth of a value: the test of "if not user_query" *)
Truthy(v) ==
  CASE v.t = "null" -> FALSE
    [] v.t = "string" -> Len(v.s) > 0
    [] v.t = "number" -> v.n # 0
    [] v.t = "array" -> Len(v.items) > 0
    [] v.t = "object" -> DOMAIN v.fields # {}

(* The first try block of handler: json.loads, body.get('question'), the  *)
(* truth test                                                              *)
ParseBody(body) ==
  LET parsed == json_loads(body)
  IN  IF ~parsed.ok THEN [ok |-> FALSE, err |-> parsed.err]
      ELSE IF parsed.val.t # "object" THEN [ok |-> FALSE, err |-> "AttributeError"]
      ELSE LET user_query == Get(parsed.val.fields, "question", JNull)
           IN  IF ~Truthy(user_query)
                 THEN [ok |-> FALSE, err |-> "Missing 'question' in request body."]
               ELSE [ok |-> TRUE, user_query |-> user_query]

(* json.dumps of one search result and of the response record of answer *)
SourceJson(src) ==
  JObj([content |-> JStr(src.content), metadata |-> JObj(src.metadata),
        score |-> JNum(src.score), source |-> JStr(<<src.source>>)])

ResponseJson(resp) ==
  JObj([answer |-> JStr(resp.answer),
        sources |-> JArr([i \in 1..Len(resp.sources) |-> SourceJson(resp.sources[i])]),
        metadata |-> JObj(resp.metadata)])

ErrorBody(msg) == JsonText(JObj([error |-> JStr(msg)]))

Response(status, body) == [statusCode |-> status, headers |-> Headers, body |-> body]

(* A handler that reports a failed pipeline run as a success *)
RunPipeline_Always200(b, r, user_query, searchRaises, g) ==
  IF b.status # "ready"
    THEN [responses |-> <<Response(200,
                           ErrorBody(<<"Internal Server Error: ",
                                       "RAG Chatbot not initialized.">>))>>,
          calls |-> <<>>]
  ELSE LET c == answer(b, r, IF user_query.t = "string" THEN user_query.s ELSE <<>>,
                       TRUE, searchRaises \/ user_query.t # "string", g)
       IN  IF c.outcome = "raised"
             THEN [responses |-> <<Response(200,
                                    ErrorBody(<<"Internal Server Error: ", "search">>))>>,
                   calls |-> <<c>>]
           ELSE [responses |-> <<Response(200, JsonText(ResponseJson(c.response)))>>,
                 calls |-> <<c>>]

(* The second try block of handler.  A question that is no string makes    *)
(* the embedding of the query raise inside search                          *)
RunPipeline(b, r, user_query, searchRaises, g) ==
  IF b.status # "ready"
    THEN [responses |-> <<Response(500,
                           ErrorBody(<<"Internal Server Error: ",
                                       "RAG Chatbot not initialized.">>))>>,
          calls |-> <<>>]
  ELSE LET c == answer(b, r, IF user_query.t = "string" THEN user_query.s ELSE <<>>,
                       TRUE, searchRaises \/ user_query.t # "string", g)
       IN  IF c.outcome = "raised"
             THEN [responses |-> <<Response(500,
                                    ErrorBody(<<"Internal Server Error: ", "search">>))>>,
                   calls |-> <<c>>]
           ELSE [responses |-> <<Response(200, JsonText(ResponseJson(c.response)))>>,
                 calls |-> <<c>>]

(* A handler that looks for the chatbot before it looks at the body *)
HandlePost_ChatbotFirst(b, r, body, searchRaises, g) ==
  LET parsed == ParseBody(body)
  IN  IF b.status # "ready"
        THEN RunPipeline(b, r, JNull, searchRaises, g)
      ELSE IF ~parsed.ok
        THEN [responses |-> <<Response(400,
                               ErrorBody(<<"Invalid request body: ", parsed.err>>))>>,
              calls |-> <<>>]
      ELSE RunPipeline(b, r, parsed.user_query, searchRaises, g)

(* handler past its method tests: the body is validated, then the chatbot  *)
(* is looked for and the pipeline run                                      *)
HandlePost(b, r, body, searchRaises, g) ==
  LET parsed == ParseBody(body)
  IN  IF ~parsed.ok
        THEN [responses |-> <<Response(400,
                               ErrorBody(<<"Invalid request body: ", parsed.err>>))>>,
              calls |-> <<>>]
      ELSE RunPipeline(b, r, parsed.user_query, searchRaises, g)

(* A handler that answers a body without a question as an internal error *)
handler_NoBodyCheck(b, r, request, searchRaises, g) ==
  IF request.method = "OPTIONS"
    THEN [responses |-> <<Response(200, EmptyBody)>>, calls |-> <<>>]
  ELSE IF request.method # "POST"
    THEN [responses |-> <<Response(405, ErrorBody(<<"Method Not Allowed">>))>>,
          calls |-> <<>>]
  ELSE LET parsed == ParseBody(request.body)
       IN  IF ~parsed.ok
             THEN [responses |-> <<Response(500,
                                    ErrorBody(<<"Internal Server Error: ", parsed.err>>))>>,
                   calls |-> <<>>]
           ELSE RunPipeline(b, r, parsed.user_query, searchRaises, g)

(* handler(request): the responses it returns and the answer calls it made *)
handler(b, r, request, searchRaises, g) ==
  IF request.method = "OPTIONS"
    THEN [responses |-> <<Response(200, EmptyBody)>>, calls |-> <<>>]
  ELSE IF request.method # "POST"
    THEN [responses |-> <<Response(405, ErrorBody(<<"Method Not Allowed">>))>>,
          calls |-> <<>>]
  ELSE HandlePost(b, r, request.body, searchRaises, g)

(* The module is imported: the key is read from the environment and the    *)
(* chatbot built; any exception leaves RAG_BOT = None, here a bot that is  *)
(* not ready                                                               *)
HttpModuleInit ==
  /\ ~http.loaded
  /\ cli = NoCli
  /\ bot.status = "none"
  /\ retriever.status = "none"
  /\ \E key \in ApiKeys :
       LET new == ChatbotInit(disk, key, "llama-3.2-3b-preview", 4)
       IN  /\ bot' = new.bot
           /\ retriever' = new.retriever
           /\ http' = [NoHttp EXCEPT !.loaded = TRUE,
                         !.log = IF new.bot.status = "ready" THEN <<>>
                                 ELSE <<"Error initializing RAGChatbot">>]
  /\ UNCHANGED <<dataDir, disk, ing, runs, call, prev, sr, stats, cli, split, ui>>

(* One request is handled from entry to return *)
HandleRequest ==
  /\ http.loaded
  /\ \E request \in Requests, searchRaises \in BOOLEAN, g \in GenOutcomes :
       LET out == handler(bot, retriever, request, searchRaises, g)
       IN  http' = [http EXCEPT !.req = request, !.responses = out.responses,
                                !.calls = out.calls]
  /\ UNCHANGED <<dataDir, disk, ing, runs, retriever, bot, call, prev, sr, stats, cli, split, ui>>

----------------------------------------------------------------------------
(* The command line chatbot: main and RAGChatbot.chat *)

(* Characters of a typed line: 0 is the blank, 1..9 are lower-case         *)
(* letters (q u i t e x a ...), 11..19 their upper-case forms              *)
Lower(ch) == IF ch > 10 THEN ch - 10 ELSE ch

(* str.lower *)
LowerText(t) == [i \in 1..Len(t) |-> Lower(t[i])]

(* 'quit', 'exit', 'q' *)
Sentinels == { <<1, 2, 3, 4>>, <<5, 6, 3, 4>>, <<1>> }

(* Lines a user may type: the sentinels, capitalised and padded forms of   *)
(* them, blank lines, questions                                            *)
Lines ==
  Sentinels \cup
    { <<11, 2, 3, 4>>, <<0, 1, 0>>, <<>>, <<0, 0>>, <<7>>, <<0, 7, 0, 1>>,
      <<1, 2, 3, 4, 0, 7>> }

(* What main and chat print *)
PrintGoodbye == [kind |-> "goodbye"]

PrintError == [kind |-> "error"]

PrintAnswer(text) == [kind |-> "answer", text |-> text]

PrintSourcesHeader(n) == [kind |-> "sources", n |-> n]

PrintSource(i, src) ==
  [kind |-> "source", i |-> i, source |-> src.source, score |-> src.score]

(* The answer line, then the header and one line per source, if any *)
PrintResult(result) ==
  <<PrintAnswer(result.answer)>>
    \o (IF Len(result.sources) > 0
          THEN <<PrintSourcesHeader(Len(result.sources))>>
                 \o [i \in 1..Len(result.sources) |->
                       PrintSource(i, result.sources[i])]
        ELSE <<>>)

(* A main that goes on to its query mode with a chatbot that failed *)
main_start_GoesOn(d, key, m, k, mode) ==
  IF key = None
    THEN [bot |-> NoBot, retriever |-> NoRetriever,
          cli |-> [NoCli EXCEPT !.pc = "exited", !.exit = "returned",
                                !.out = <<PrintError>>]]
  ELSE LET new == ChatbotInit(d, key, m, k)
       IN  [bot |-> new.bot, retriever |-> new.retriever,
            cli |-> [NoCli EXCEPT !.pc = mode]]

(* main up to the construction of the chatbot: without a key it prints     *)
(* and returns; a constructor that raises is reported and re-raised        *)
main_start(d, key, m, k, mode) ==
  IF key = None
    THEN [bot |-> NoBot, retriever |-> NoRetriever,
          cli |-> [NoCli EXCEPT !.pc = "exited", !.exit = "returned",
                                !.out = <<PrintError>>]]
  ELSE LET new == ChatbotInit(d, key, m, k)
       IN  [bot |-> new.bot, retriever |-> new.retriever,
            cli |-> IF new.bot.status = "ready" THEN [NoCli EXCEPT !.pc = mode]
                    ELSE [NoCli EXCEPT !.pc = "exited", !.exit = "raised",
                                       !.out = <<PrintError>>]]

(* The command is started, with --query or without *)
CliStart ==
  /\ cli = NoCli
  /\ ~http.loaded
  /\ bot.status = "none"
  /\ retriever.status = "none"
  /\ \E key \in ApiKeys, m \in Models, k \in TopKs, mode \in {"single", "chat"} :
       LET new == main_start(disk, key, m, k, mode)
       IN  bot' = new.bot /\ retriever' = new.retriever /\ cli' = new.cli
  /\ UNCHANGED <<dataDir, disk, ing, runs, call, prev, sr, stats, http, split, ui>>

(* Single query mode: one answer call, its prints, and the end of main *)
CliSingleQuery ==
  /\ cli.pc = "single"
  /\ \E q \in Queries, searchRaises \in BOOLEAN, g \in GenOutcomes :
       LET c == answer(bot, retriever, q, TRUE, searchRaises, g)
       IN  cli' = IF c.outcome = "raised"
                    THEN [cli EXCEPT !.pc = "exited", !.exit = "raised", !.line = q,
                                     !.calls = <<c>>, !.out = <<PrintError>>]
                  ELSE [cli EXCEPT !.pc = "exited", !.exit = "returned", !.line = q,
                                   !.calls = <<c>>, !.out = PrintResult(c.response)]
  /\ UNCHANGED <<dataDir, disk, ing, runs, retriever, bot, call, prev, sr, stats, http, split, ui>>

(* A loop body that hands every line that is no sentinel to answer *)
chat_step_NoBlankTest(b, r, c0, event, line, searchRaises, g) ==
  LET st == [c0 EXCEPT !.event = event, !.line = line, !.calls = <<>>, !.out = <<>>]
      query == StripText(line)
  IN  IF event = "interrupt"
        THEN [st EXCEPT !.pc = "exited", !.exit = "returned", !.line = <<>>,
                        !.out = <<PrintGoodbye>>]
      ELSE IF event = "eof"
        THEN [st EXCEPT !.line = <<>>, !.out = <<PrintError>>]
      ELSE IF LowerText(query) \in Sentinels
        THEN [st EXCEPT !.pc = "exited", !.exit = "returned",
                        !.out = <<PrintGoodbye>>]
      ELSE LET c == answer(b, r, query, TRUE, searchRaises, g)
           IN  IF c.outcome = "raised"
                 THEN [st EXCEPT !.calls = <<c>>, !.out = <<PrintError>>]
               ELSE [st EXCEPT !.calls = <<c>>, !.out = PrintResult(c.response)]

(* One pass through the body of the while loop of chat: input() delivers   *)
(* a line, or raises EOFError or KeyboardInterrupt                         *)
chat_step(b, r, c0, event, line, searchRaises, g) ==
  LET st == [c0 EXCEPT !.event = event, !.line = line, !.calls = <<>>, !.out = <<>>]
      query == StripText(line)
  IN  IF event = "interrupt"
        THEN [st EXCEPT !.pc = "exited", !.exit = "returned", !.line = <<>>,
                        !.out = <<PrintGoodbye>>]
      ELSE IF event = "eof"
        THEN [st EXCEPT !.line = <<>>, !.out = <<PrintError>>]
      ELSE IF LowerText(query) \in Sentinels
        THEN [st EXCEPT !.pc = "exited", !.exit = "returned",
                        !.out = <<PrintGoodbye>>]
      ELSE IF Len(query) = 0 THEN st
      ELSE LET c == answer(b, r, query, TRUE, searchRaises, g)
           IN  IF c.outcome = "raised"
                 THEN [st EXCEPT !.calls = <<c>>, !.out = <<PrintError>>]
               ELSE [st EXCEPT !.calls = <<c>>, !.out = PrintResult(c.response)]

(* The loop reads once more and runs its body to the next read or to the   *)
(* end of the loop                                                         *)
ChatIteration ==
  /\ cli.pc = "chat"
  /\ \E event \in {"line", "eof", "interrupt"}, line \in Lines,
        searchRaises \in BOOLEAN, g \in GenOutcomes :
       cli' = chat_step(bot, retriever, cli, event, line, searchRaises, g)
  /\ UNCHANGED <<dataDir, disk, ing, runs, retriever, bot, call, prev, sr, stats, http, split, ui>>

(* The loop on a finite input stream of at most MaxLines lines: input()   *)
(* delivers the next line, or raises EOFError at the end of the stream     *)
(* and at every read after it                                              *)
ChatReadStream ==
  /\ cli.pc = "chat"
  /\ \E event \in {"line", "eof"}, line \in Lines,
        searchRaises \in BOOLEAN, g \in GenOutcomes :
       /\ event = "line" => cli.event # "eof" /\ cli.read < MaxLines
       /\ cli' = [chat_step(bot, retriever, cli, event, line, searchRaises, g)
                    EXCEPT !.read = IF event = "line" THEN @ + 1 ELSE @]
  /\ UNCHANGED <<dataDir, disk, ing, runs, retriever, bot, call, prev, sr, stats, http, split, ui>>

(* The user interrupts the loop while it waits in input() *)
ChatInterrupt ==
  /\ cli.pc = "chat"
  /\ cli' = chat_step(bot, retriever, cli, "interrupt", <<>>, FALSE, NoGen)
  /\ UNCHANGED <<dataDir, disk, ing, runs, retriever, bot, call, prev, sr, stats, http, split, ui>>

(* The command on a finite input stream *)
NextLoop ==
  \/ CliStart
  \/ CliSingleQuery
  \/ ChatReadStream
  \/ ChatInterrupt

(* The entry points that take queries: the HTTP function or the command *)
NextFront ==
  \/ HttpModuleInit
  \/ HandleRequest
  \/ CliStart
  \/ CliSingleQuery
  \/ ChatIteration

----------------------------------------------------------------------------
(* The system *)

(* indexBy and sidecarBy are history: the number of the ingest run that   *)
(* last wrote the file, 0 for a file no run of ingest wrote                *)
NoDisk ==
  [dirExists |-> FALSE, index |-> NoFile, sidecar |-> NoFile,
   indexBy |-> 0, sidecarBy |-> 0]

InitialDisks ==
  { NoDisk,
    [dirExists |-> TRUE, index |-> NoFile, sidecar |-> NoFile,
      indexBy |-> 0, sidecarBy |-> 0],
    [dirExists |-> TRUE, index |-> File(EmptyStore), sidecar |-> NoFile,
      indexBy |-> 0, sidecarBy |-> 0],
    [dirExists |-> TRUE, index |-> File(ForeignStore), sidecar |-> NoFile,
      indexBy |-> 0, sidecarBy |-> 0] }

NoSearch == [op |-> None, query |-> <<>>, k |-> 0, out |-> Nil]

(* The state before any process has run *)
Init ==
  /\ dataDir \in DataDirs
  /\ disk \in InitialDisks
  /\ ing = IngIdle
  /\ runs = 0
  /\ retriever = NoRetriever
  /\ bot = NoBot
  /\ call = NoCall
  /\ prev = NoCall
  /\ sr = NoSearch
  /\ stats = Nil
  /\ http = NoHttp
  /\ cli = NoCli
  /\ split = NoSplit
  /\ ui = NoUi

(* The ingestion command, run up to MaxRuns times *)
NextIngest ==
  \/ IngestStart
  \/ load_documents
  \/ IngestChunk
  \/ IngestEmbed
  \/ SaveMkdir
  \/ SaveIndex
  \/ SaveMetadata
  \/ IngestExit

SpecIngest == Init /\ [][NextIngest]_vars

(* Ingestion runs, and a process that loads a Retriever from what lies in  *)
(* vectorstore_dir at that moment and asks for its statistics              *)
NextStats ==
  \/ NextIngest
  \/ RetrieverNew
  \/ GetStatsCall

SpecStats == Init /\ [][NextStats]_vars

(* What ingest runs over the data directories leave in vectorstore_dir:    *)
(* the index of a run with its sidecar, or with the sidecar not written    *)
(* or damaged by the failed write, or a damaged index                      *)
IngestedStore(d, p) ==
  create_vectorstore(
    chunk_documents(LoadAll(d.files), p.chunk_size, p.chunk_overlap),
    DefaultEmbeddingModel)

IngestedDisks ==
  UNION { { [dirExists |-> TRUE, index |-> File(IngestedStore(d, p)), sidecar |-> sc,
             indexBy |-> 1, sidecarBy |-> IF sc = NoFile THEN 0 ELSE 1] :
              sc \in {File(SidecarOf(IngestedStore(d, p), p)), NoFile, Corrupt} } :
          d \in {DataDir(<<PdfA>>), DataDir(<<PdfA, PdfB>>)},
          p \in ParamChoices }
    \cup { [dirExists |-> TRUE, index |-> Corrupt, sidecar |-> NoFile,
            indexBy |-> 1, sidecarBy |-> 0] }

(* A query process starts on whatever vectorstore_dir holds by then *)
InitChat ==
  /\ dataDir = DataDir(<<>>)
  /\ disk \in InitialDisks \cup IngestedDisks
  /\ ing = IngIdle
  /\ runs = 0
  /\ retriever = NoRetriever
  /\ bot = NoBot
  /\ call = NoCall
  /\ prev = NoCall
  /\ sr = NoSearch
  /\ stats = Nil
  /\ http = NoHttp
  /\ cli = NoCli
  /\ split = NoSplit
  /\ ui = NoUi

(* A query process: the retrieval command, or a chatbot answering *)
NextChat ==
  \/ RetrieverNew
  \/ SearchCall
  \/ GetContextCall
  \/ ChatbotNew
  \/ AnswerStart
  \/ AnswerSearch
  \/ AnswerGenerate
  \/ AnswerReturn

SpecChat == InitChat /\ [][NextChat]_vars

SpecFront == InitChat /\ [][NextFront]_vars

(* The loop keeps running while it can; whether the user ever interrupts   *)
(* is up to the user                                                       *)
SpecLoop == InitChat /\ [][NextLoop]_vars /\ WF_vars(ChatReadStream)

(* One Retriever or one chatbot used for query after query, get_stats     *)
(* among them                                                              *)
NextReuse ==
  \/ NextChat
  \/ GetStatsCall

SpecReuse == InitChat /\ [][NextReuse]_vars

----------------------------------------------------------------------------
(* The web UI (app.py): Streamlit runs main from top to bottom once per    *)
(* event of the page; st.session_state.messages lives across the runs      *)

MaxMessages == 4

UserMessage(prompt) == [role |-> "user", content |-> prompt]

AssistantMessage(response) ==
  [role |-> "assistant", content |-> response.answer,
   sources |-> response.sources]

ErrorMessage == [role |-> "assistant", content |-> <<"Error: ", "str(e)">>]

(* The first run: the key field empty stops the script; a missing          *)
(* vectorstore_dir or a failing load_chatbot returns before the chat.      *)
LoadUi(d, key, m, k) ==
  LET new == ChatbotInit(d, key, m, k)
  IN  IF key = None
        THEN [ui |-> [NoUi EXCEPT !.pc = "stopped"],
              bot |-> NoBot, retriever |-> NoRetriever]
      ELSE IF ~d.dirExists
        THEN [ui |-> [NoUi EXCEPT !.pc = "no_store"],
              bot |-> NoBot, retriever |-> NoRetriever]
      ELSE IF new.bot.status # "ready"
        THEN [ui |-> [NoUi EXCEPT !.pc = "load_failed"],
              bot |-> new.bot, retriever |-> new.retriever]
      ELSE [ui |-> [NoUi EXCEPT !.pc = "ready"],
            bot |-> new.bot, retriever |-> new.retriever]

(* A run that chat_input hands a prompt: the user message is appended,     *)
(* answer is called, and the assistant message is appended after the       *)
(* answer is drawn, or the error message after the error is drawn.  When   *)
(* another event of the page arrives while answer runs (rerun), Streamlit  *)
(* ends the run at its next st call, which stands before either append.    *)
submit(u, b, r, prompt, searchRaises, g, rerun) ==
  LET c == answer(b, r, prompt, TRUE, searchRaises, g)
      asked == Append(u.messages, UserMessage(prompt))
  IN  IF rerun
        THEN [u EXCEPT !.messages = asked, !.last = "cut"]
      ELSE IF c.outcome = "raised"
        THEN [u EXCEPT !.messages = Append(asked, ErrorMessage),
                       !.last = "error"]
      ELSE [u EXCEPT !.messages = Append(asked, AssistantMessage(c.response)),
                     !.last = "answer"]

UiLoad ==
  /\ ui.pc = "new"
  /\ bot.status = "none"
  /\ \E key \in ApiKeys, m \in Models, k \in TopKs :
       LET new == LoadUi(disk, key, m, k)
       IN  ui' = new.ui /\ bot' = new.bot /\ retriever' = new.retriever
  /\ UNCHANGED <<dataDir, disk, ing, runs, call, prev, sr, stats, http, cli, split>>

UiSubmit ==
  /\ ui.pc = "ready"
  /\ Len(ui.messages) + 2 <= MaxMessages
  /\ \E prompt \in Queries, searchRaises \in BOOLEAN, g \in GenOutcomes :
       ui' = submit(ui, bot, retriever, prompt, searchRaises, g, FALSE)
  /\ UNCHANGED <<dataDir, disk, ing, runs, retriever, bot, call, prev, sr, stats, http, cli, split>>

UiSubmitCut ==
  /\ ui.pc = "ready"
  /\ Len(ui.messages) + 2 <= MaxMessages
  /\ \E prompt \in Queries, searchRaises \in BOOLEAN, g \in GenOutcomes :
       ui' = submit(ui, bot, retriever, prompt, searchRaises, g, TRUE)
  /\ UNCHANGED <<dataDir, disk, ing, runs, retriever, bot, call, prev, sr, stats, http, cli, split>>

(* The Clear Chat button is drawn only while the history is not empty *)
UiClearChat ==
  /\ ui.pc = "ready"
  /\ Len(ui.messages) > 0
  /\ ui' = [ui EXCEPT !.messages = <<>>, !.last = "cleared"]
  /\ UNCHANGED <<dataDir, disk, ing, runs, retriever, bot, call, prev, sr, stats, http, cli, split>>

NextUi ==
  \/ UiLoad
  \/ UiSubmit
  \/ UiSubmitCut
  \/ UiClearChat

SpecUi == InitChat /\ [][NextUi]_vars

(* The splitter on its own: page texts of up to MaxTextLen characters,     *)
(* blanks among them, under each pair of parameters                        *)
Texts == UNION { [1..n -> {Blank, 1, 2}] : n \in 0..MaxTextLen }

SplitParams == ParamChoices \cup { [chunk_size |-> 4, chunk_overlap |-> 2] }

InitSplit == InitChat /\ disk = NoDisk

(* chunk_documents on a document of one page *)
SplitCall ==
  /\ split = NoSplit
  /\ \E text \in Texts, p \in SplitParams :
       split' = [text |-> text, params |-> p,
                 chunks |-> chunk_documents(
                              << [page_content |-> text,
                                  metadata |-> [source |-> "t.pdf", page |-> 0]] >>,
                              p.chunk_size, p.chunk_overlap)]
  /\ UNCHANGED <<dataDir, disk, ing, runs, retriever, bot, call, prev, sr, stats, http, cli, ui>>

NextSplit == SplitCall

SpecSplit == InitSplit /\ [][NextSplit]_vars

----------------------------------------------------------------------------
(* Properties of RAGChatbot.answer, checked under SpecChat *)

Returned(c) == c.pc = "done" /\ c.outcome = "returned"

CountApi(ev, api) == Cardinality({i \in DOMAIN ev : ev[i].api = api})

(* C1: whenever the search of an answer call returned zero results, the    *)
(* call returns the fixed fallback text with an empty sources list and     *)
(* has made no call to the generation API.                                 *)
C1_ZeroResultsFallback ==
  (call.searched /\ call.outcome # "raised" /\ Len(call.results) = 0)
    => /\ Returned(call)
       /\ call.response.answer = FallbackAnswer
       /\ Len(call.response.sources) = 0
       /\ CountApi(call.events, "generate") = 0
       /\ call.gen = NoGen

C1_Witness ==
  /\ Returned(call)
  /\ call.searched
  /\ Len(call.results) = 0
  /\ Len(retriever.vectorstore.docs) = 0

(* C2: when retrieval returned at least one chunk and the generation call  *)
(* raised, answer returns (it does not raise) a record with the fields     *)
(* answer, sources and metadata whose answer is a non-empty text that      *)
(* ends with the message of the exception.                                 *)
C2_GenerationFailureReturns ==
  (call.pc = "done" /\ Len(call.results) > 0 /\ call.gen.kind = "raise")
    => /\ call.outcome = "returned"
       /\ DOMAIN call.response = {"answer", "sources", "metadata"}
       /\ Len(call.response.answer) > 0
       /\ Len(call.response.answer) > Len(call.gen.msg)
       /\ SubSeq(call.response.answer,
                 Len(call.response.answer) - Len(call.gen.msg) + 1,
                 Len(call.response.answer)) = call.gen.msg

C2_Witness ==
  /\ Returned(call)
  /\ Len(call.results) > 0
  /\ call.gen.kind = "raise"
  /\ Len(call.gen.msg) = 0

(* C3: every value answer returns, on every path, has the fields answer,   *)
(* sources and metadata, and its metadata has the three keys               *)
(* retrieved_chunks, model and query.                                      *)
C3_FullMetadataOnEveryPath ==
  Returned(call)
    => /\ DOMAIN call.response = {"answer", "sources", "metadata"}
       /\ DOMAIN call.response.metadata = {"retrieved_chunks", "model", "query"}

(* C4: two answer calls on the same chatbot with the same query and the    *)
(* same generation outcome, one with return_sources false and one with     *)
(* true, made the same retrieval and generation calls and return the same  *)
(* answer and metadata, retrieved_chunks being the number of chunks        *)
(* retrieved; the first has no sources, the second the retrieved results   *)
(* in retrieval order.                                                     *)
SameButSources(without, with) ==
  /\ without.events = with.events
  /\ without.results = with.results
  /\ without.response.answer = with.response.answer
  /\ without.response.metadata = with.response.metadata
  /\ with.response.metadata.retrieved_chunks = Len(with.results)
  /\ Len(without.response.sources) = 0
  /\ with.response.sources = with.results

C4_ReturnSourcesOnlyChangesSources ==
  (/\ Returned(call)
   /\ prev.outcome = "returned"
   /\ prev.query = call.query
   /\ prev.gen = call.gen
   /\ prev.return_sources # call.return_sources)
    => IF call.return_sources THEN SameButSources(prev, call)
       ELSE SameButSources(call, prev)

C4_Witness ==
  /\ Returned(call)
  /\ prev.outcome = "returned"
  /\ prev.query = call.query
  /\ prev.gen = call.gen
  /\ ~prev.return_sources
  /\ call.return_sources
  /\ Len(call.results) > 1
  /\ call.gen.kind = "ok"

(* C5: an answer call makes exactly one Retriever.search call and at most  *)
(* one generation call, the search before the generation call, and a       *)
(* generation call that failed is not made again.                          *)
C5_OneSearchAtMostOneGeneration ==
  LET ev == call.events
  IN  /\ CountApi(ev, "search") <= 1
      /\ CountApi(ev, "generate") <= 1
      /\ (call.pc \in {"generate", "done"}
            => CountApi(ev, "search") = 1 /\ ev[1].api = "search")
      /\ \A i, j \in DOMAIN ev :
           (ev[i].api = "search" /\ ev[j].api = "generate") => i < j
      /\ (call.pc = "done" /\ call.gen.kind \in {"raise", "no_content"}
            => CountApi(ev, "generate") = 1)

C5_Witness ==
  /\ Returned(call)
  /\ call.gen.kind = "raise"
  /\ Len(call.events) = 2
  /\ call.events[2].api = "generate"

----------------------------------------------------------------------------
(* Properties of Retriever, checked under SpecChat *)

Searched == sr.op = "search"

NonDecreasing(results) ==
  \A i, j \in DOMAIN results : i < j => results[i].score <= results[j].score

(* C6: for every query and k >= 1, search returns at most k results, one   *)
(* per result the vector store delivered and in the order it delivered     *)
(* them, which is by non-decreasing distance.                              *)
C6_SearchKeepsRankOrder ==
  Searched
    => LET o == sr.out
       IN  /\ o.ok
           /\ o.k >= 1
           /\ Len(o.results) <= o.k
           /\ Len(o.results) = Len(o.raw)
           /\ \A n \in DOMAIN o.results :
                /\ o.results[n].content = o.raw[n].doc.page_content
                /\ o.results[n].metadata = o.raw[n].doc.metadata
                /\ o.results[n].score = o.raw[n].score
           /\ \A m, n \in DOMAIN o.raw : m # n => o.raw[m].id # o.raw[n].id
           /\ NonDecreasing(o.results)

C6_Witness ==
  /\ Searched
  /\ Len(sr.out.results) >= 2
  /\ sr.out.results[1].score < sr.out.results[2].score
  /\ sr.out.raw[1].id > sr.out.raw[2].id

(* C7: on a store of n chunks search returns exactly min(k, n) results,    *)
(* and the source of each result is the source recorded in the metadata    *)
(* of its chunk.                                                           *)
C7_SearchCountAndSource ==
  Searched
    => LET o == sr.out
           docs == retriever.vectorstore.docs
       IN  /\ Len(o.results) = Min(o.k, Len(docs))
           /\ (Len(docs) > 0 => Len(o.results) >= 1)
           /\ \A n \in DOMAIN o.results :
                "source" \in DOMAIN docs[o.raw[n].id].metadata
                  => o.results[n].source = docs[o.raw[n].id].metadata.source

C7_Witness ==
  /\ Searched
  /\ Len(retriever.vectorstore.docs) = 5
  /\ sr.k = 3
  /\ Len(sr.out.results) = 3
  /\ \A n \in 1..3 : sr.out.results[n].source = "a.pdf"

QueryExecuted == sr.op # None \/ call.searched \/ prev.searched

(* C8 as stated: when vectorstore_dir does not exist or the store cannot   *)
(* be loaded, constructing the Retriever fails with the store-not-found    *)
(* error, and no query runs on a Retriever whose store was not loaded.     *)
C8_StoreNotFoundForEveryLoadFailure ==
  /\ (retriever.status # "none" /\ (~disk.dirExists \/ disk.index.st # "ok"))
       => retriever.status = "failed" /\ retriever.error = StoreNotFound
  /\ QueryExecuted => retriever.status = "loaded" /\ retriever.vectorstore # Nil

(* C8 amended: when vectorstore_dir does not exist, constructing the       *)
(* Retriever fails with the store-not-found error; when the directory      *)
(* exists and the index cannot be loaded, it fails with the error of the   *)
(* loader; either way no chatbot becomes ready and no query runs on a      *)
(* Retriever whose store was not loaded.                                   *)
C8_ConstructionFailsBeforeAnyQuery ==
  /\ (retriever.status # "none" /\ ~disk.dirExists)
       => retriever.status = "failed" /\ retriever.error = StoreNotFound
  /\ (retriever.status # "none" /\ disk.dirExists /\ disk.index.st # "ok")
       => retriever.status = "failed" /\ retriever.error = "LoadError"
  /\ retriever.status = "failed" => bot.status # "ready"
  /\ bot.status = "ready" => retriever.status = "loaded"
  /\ retriever.status = "loaded"
       => /\ disk.index.st = "ok"
          /\ retriever.vectorstore = disk.index.val
  /\ QueryExecuted => retriever.status = "loaded" /\ retriever.vectorstore # Nil

C8_Witness ==
  /\ retriever.status = "failed"
  /\ disk.dirExists
  /\ disk.index.st # "ok"
  /\ retriever.error = "LoadError"
  /\ bot.status = "failed"
  /\ ~QueryExecuted

----------------------------------------------------------------------------
(* Properties of DocumentIngestor.ingest, checked under SpecIngest *)

ZeroDocuments ==
  dataDir.exists /\ AllParse(dataDir.files) /\ Len(LoadAll(dataDir.files)) = 0

(* C9: when loading finds zero documents, ingest ends after the load step  *)
(* with the no-documents message, having chunked, embedded and saved       *)
(* nothing, and vectorstore_dir is as it was before the run.               *)
C9_ZeroDocumentsWritesNothing ==
  (ZeroDocuments /\ Len(ing.steps) > 0)
    => /\ ing.pc = "done"
       /\ ing.outcome = "returned"
       /\ ing.steps = <<"load">>
       /\ ing.log = <<"No documents found">>
       /\ Len(ing.chunks) = 0
       /\ ing.vectorstore = Nil
       /\ disk = ing.before

C9_Witness ==
  /\ ZeroDocuments
  /\ ing.pc = "done"
  /\ ing.steps = <<"load">>
  /\ disk.dirExists
  /\ disk.index.st = "ok"

LastStep == ing.steps[Len(ing.steps)]

WroteFullStore ==
  /\ disk.dirExists
  /\ disk.index = File(ing.vectorstore)
  /\ disk.sidecar = File(SidecarOf(ing.vectorstore, ing.params))

(* C10: a failure of embedding or of a persistence step (mkdir, saving the *)
(* index, writing the sidecar) ends ingest by raising to the caller; a run *)
(* that returned normally either wrote nothing or left the index of this   *)
(* run together with its sidecar.                                          *)
C10_PersistenceFailureIsFatal ==
  /\ (ing.pc = "done" /\ ing.error # None) => ing.outcome = "raised"
  /\ (ing.pc = "done" /\ ing.outcome = "returned")
       => /\ ing.error = None
          /\ \/ ing.steps = <<"load">> /\ disk = ing.before
             \/ WroteFullStore
  /\ (ing.pc = "done" /\ disk # ing.before /\ ~WroteFullStore)
       => ing.outcome = "raised"

C10_Witness ==
  /\ ing.pc = "done"
  /\ ing.outcome = "raised"
  /\ ing.error = "OSError"
  /\ LastStep = "save_meta"
  /\ disk.index = File(ing.vectorstore)
  /\ disk.sidecar.st # "ok"

SomeFileFails == dataDir.exists /\ \E i \in 1..Len(dataDir.files) : ~dataDir.files[i].ok

ParseableFiles == SelectSeq(dataDir.files, LAMBDA f : f.ok)

(* C11: when one of several PDF files fails to parse, ingest skips it and  *)
(* still chunks, embeds and persists the documents of the other files;     *)
(* short of an embedding or write failure the run returns with their       *)
(* store on disk.                                                          *)
C11_FailingPdfIsSkipped ==
  (/\ SomeFileFails
   /\ Len(ParseableFiles) > 0
   /\ ing.pc = "done"
   /\ ing.error \notin {"EmbeddingError", "IndexError", "OSError"})
    => /\ ing.outcome = "returned"
       /\ ing.documents = LoadAll(ParseableFiles)
       /\ WroteFullStore

(* The Retriever holds a sidecar record that a run of ingest wrote *)
HoldsSidecar == retriever.status = "loaded" /\ "num_chunks" \in DOMAIN retriever.metadata

(* The Retriever loaded the index and the sidecar of one and the same run  *)
LoadedOneRun ==
  /\ HoldsSidecar
  /\ retriever.loadedBy.index = retriever.loadedBy.sidecar

(* The run of ingest that just returned wrote what the Retriever loaded *)
LoadedThisRun ==
  /\ LoadedOneRun
  /\ ing.pc = "done" /\ ing.outcome = "returned" /\ WroteFullStore
  /\ retriever.loadedBy.index = runs

----------------------------------------------------------------------------
(* Properties of the HTTP function and of the command, checked under       *)
(* SpecFront                                                               *)

Handled == http.req # Nil

IsPost == Handled /\ http.req.method = "POST"

(* The body is a JSON object with a non-empty question *)
WellFormed(body) ==
  /\ body.raw = "json"
  /\ body.value.t = "object"
  /\ "question" \in DOMAIN body.value.fields
  /\ Truthy(body.value.fields.question)

PipelineRaised == Len(http.calls) = 1 /\ http.calls[1].outcome = "raised"

PipelineReturned == Len(http.calls) = 1 /\ http.calls[1].outcome = "returned"

StatusCode == http.responses[1].statusCode

(* C13: every handled request has exactly one response, with the header    *)
(* Access-Control-Allow-Origin: *; OPTIONS gives 200 and an empty body,    *)
(* any other method but POST 405, a POST with a malformed body 400, a POST *)
(* whose pipeline run raised or whose chatbot is not initialised 500, any  *)
(* other POST 200 with the JSON text of {answer, sources, metadata}.       *)
C13_StatusMapping ==
  Handled =>
    /\ Len(http.responses) = 1
    /\ http.responses[1].headers.AccessControlAllowOrigin = "*"
    /\ http.req.method = "OPTIONS"
         => StatusCode = 200 /\ http.responses[1].body = EmptyBody
    /\ http.req.method \notin {"OPTIONS", "POST"} => StatusCode = 405
    /\ (IsPost /\ ~WellFormed(http.req.body)) => StatusCode = 400
    /\ (IsPost /\ WellFormed(http.req.body)
          /\ (bot.status # "ready" \/ PipelineRaised)) => StatusCode = 500
    /\ (IsPost /\ WellFormed(http.req.body)
          /\ bot.status = "ready" /\ ~PipelineRaised)
         => /\ StatusCode = 200
            /\ PipelineReturned
            /\ http.responses[1].body = JsonText(ResponseJson(http.calls[1].response))
            /\ DOMAIN http.responses[1].body.value.fields
                 = {"answer", "sources", "metadata"}

C13_Witness ==
  /\ IsPost
  /\ StatusCode = 200
  /\ PipelineReturned
  /\ http.calls[1].gen.kind = "ok"
  /\ Len(http.responses[1].body.value.fields.sources.items) = 4

(* C14: a POST whose body is empty, is no JSON text, is no JSON object or  *)
(* has no question or an empty one gets the single response 400 with an    *)
(* error body, and the handler makes no answer call for it.                *)
C14_MalformedPostIs400 ==
  (/\ IsPost
   /\ \/ http.req.body = EmptyBody
      \/ http.req.body = InvalidBody
      \/ http.req.body.raw = "json" /\ http.req.body.value.t # "object"
      \/ /\ http.req.body.raw = "json" /\ http.req.body.value.t = "object"
         /\ \/ "question" \notin DOMAIN http.req.body.value.fields
            \/ http.req.body.value.fields.question \in {JNull, JStr(<<>>)})
    => /\ http.responses
            = <<Response(400, http.responses[1].body)>>
       /\ http.responses[1].body.raw = "json"
       /\ DOMAIN http.responses[1].body.value.fields = {"error"}
       /\ Len(http.calls) = 0

C14_Witness ==
  /\ IsPost
  /\ bot.status = "ready"
  /\ http.req.body = JsonText(JObj([question |-> JStr(<<>>)]))
  /\ StatusCode = 400

(* C15 as stated: once the chatbot failed to initialise, the process has   *)
(* halted: the command has exited and the HTTP function accepts no         *)
(* request.                                                                *)
C15_ConfigErrorHalts ==
  bot.status = "failed"
    => /\ cli.pc \in {"none", "exited"}
       /\ ~Handled

(* C15 amended: the command reports a configuration error and ends before  *)
(* any query; the HTTP module reports it and keeps serving, answering      *)
(* every POST with a well-formed body with 500; in neither is answer ever  *)
(* called on a chatbot that failed to initialise.                          *)
C15_NoQueryOnFailedChatbot ==
  /\ (cli.pc # "none" /\ bot.status # "ready")
       => /\ cli.pc = "exited"
          /\ cli.out = <<PrintError>>
          /\ Len(cli.calls) = 0
  /\ (http.loaded /\ bot.status # "ready")
       => /\ http.log = <<"Error initializing RAGChatbot">>
          /\ bot.status = "failed"
          /\ Len(http.calls) = 0
          /\ (IsPost /\ WellFormed(http.req.body)) => StatusCode = 500
  /\ (Len(cli.calls) > 0 \/ Len(http.calls) > 0)
       => bot.status = "ready" /\ retriever.status = "loaded"

C15_Witness ==
  /\ http.loaded
  /\ bot.status = "failed"
  /\ bot.error = StoreNotFound
  /\ IsPost
  /\ WellFormed(http.req.body)
  /\ StatusCode = 500

(* C16: for a well-formed POST to an initialised chatbot whose retrieval   *)
(* returned at least one chunk and whose generation call failed, the       *)
(* response has status 200 and a JSON body whose answer is the non-empty   *)
(* error message, with one source per retrieved chunk.                     *)
C16_FailSoftThroughHttp ==
  (/\ IsPost
   /\ WellFormed(http.req.body)
   /\ bot.status = "ready"
   /\ Len(http.calls) = 1
   /\ Len(http.calls[1].results) > 0
   /\ http.calls[1].gen.kind \in {"raise", "no_content"})
    => LET fields == http.responses[1].body.value.fields
           c == http.calls[1]
       IN  /\ StatusCode = 200
           /\ fields.answer.t = "string"
           /\ Len(fields.answer.s) > 0
           /\ SubSeq(fields.answer.s, 1, 1) = ErrorPrefix
           /\ (c.gen.kind = "raise" => fields.answer.s = ErrorPrefix \o c.gen.msg)
           /\ Len(fields.sources.items) = Len(c.results)
           /\ \A i \in 1..Len(c.results) :
                fields.sources.items[i] = SourceJson(c.results[i])

C16_Witness ==
  /\ IsPost
  /\ StatusCode = 200
  /\ Len(http.calls) = 1
  /\ http.calls[1].gen = [kind |-> "raise", msg |-> <<"timeout">>]
  /\ Len(http.responses[1].body.value.fields.sources.items) > 1

LineRead == cli.event = "line"

CitationsPrinted(out, c) ==
  /\ out[1] = PrintAnswer(c.response.answer)
  /\ Len(out) = IF Len(c.response.sources) = 0 THEN 1
                ELSE Len(c.response.sources) + 2
  /\ \A i \in 1..Len(c.response.sources) :
       out[i + 2] = PrintSource(i, c.results[i])

(* C17 as stated: a line that is quit, exit or q ends the loop without an  *)
(* answer call; for any other line answer is called exactly once with      *)
(* that line and the answer and citations are printed before the next      *)
(* read.                                                                   *)
C17_EveryOtherLineIsAnswered ==
  LineRead =>
    IF cli.line \in Sentinels
      THEN cli.pc = "exited" /\ Len(cli.calls) = 0
    ELSE /\ Len(cli.calls) = 1
         /\ cli.calls[1].query = cli.line
         /\ cli.calls[1].outcome = "returned"
         /\ CitationsPrinted(cli.out, cli.calls[1])

(* C17 amended: the line is stripped; if its lower-case form is quit, exit *)
(* or q the loop ends without an answer call; a line that is empty after   *)
(* stripping is skipped without an answer call; for any other line answer  *)
(* is called exactly once with the stripped line, and before the next read *)
(* its answer and one citation per source are printed, or, if answer       *)
(* raised, the error.                                                      *)
C17_LoopBody ==
  LineRead =>
    LET query == StripText(cli.line)
    IN  IF LowerText(query) \in Sentinels
          THEN /\ cli.pc = "exited"
               /\ Len(cli.calls) = 0
               /\ cli.out = <<PrintGoodbye>>
        ELSE IF Len(query) = 0
          THEN cli.pc = "chat" /\ Len(cli.calls) = 0 /\ Len(cli.out) = 0
        ELSE /\ cli.pc = "chat"
             /\ Len(cli.calls) = 1
             /\ cli.calls[1].query = query
             /\ cli.calls[1].return_sources
             /\ CountApi(cli.calls[1].events, "search") = 1
             /\ IF cli.calls[1].outcome = "returned"
                  THEN CitationsPrinted(cli.out, cli.calls[1])
                ELSE cli.out = <<PrintError>>

C17_Witness ==
  /\ LineRead
  /\ cli.line = <<0, 7, 0, 1>>
  /\ cli.pc = "chat"
  /\ Len(cli.calls) = 1
  /\ cli.calls[1].outcome = "returned"
  /\ Len(cli.out) = 6
  /\ cli.out[6].kind = "source"

----------------------------------------------------------------------------
(* Properties of the embedding model, checked under SpecStats *)

(* C18: a Retriever that loaded the store a run of ingest wrote embeds     *)
(* queries with the model that run embedded the chunks with, and the       *)
(* embedding_model of get_stats is the model the Retriever uses.           *)
C18_SameEmbeddingModel ==
  /\ LoadedThisRun => retriever.embedding_model = ing.embedding_model
  /\ stats # Nil => stats.embedding_model = retriever.embedding_model

----------------------------------------------------------------------------
(* Properties of chunking, checked under SpecSplit *)

WasSplit == split.params # Nil

ChunkText(i) == split.chunks[i].page_content

(* The last n characters of a are the first n characters of b *)
Overlaps(a, b, n) ==
  /\ Len(a) >= n
  /\ Len(b) >= n
  /\ SubSeq(a, Len(a) - n + 1, Len(a)) = SubSeq(b, 1, n)

IsPartOf(t, text) ==
  \E k \in 0..(Len(text) - Len(t)) : SubSeq(text, k + 1, k + Len(t)) = t

NoBlank(text) == \A i \in 1..Len(text) : text[i] # Blank

----------------------------------------------------------------------------
(* Properties of the prompt, checked under SpecChat *)

Prompted == Len(call.prompt) > 0

PartAt(part) == CHOOSE i \in DOMAIN call.prompt : call.prompt[i].part = part

SourcesInRetrievalOrder ==
  LET sources == call.prompt[PartAt("context")].sources
  IN  /\ Len(sources) = Len(call.results)
      /\ \A n \in 1..Len(sources) :
           sources[n] = [label |-> n, content |-> call.results[n].content]

(* C20 as stated: the prompt holds first the instructions (answer only     *)
(* from the context, say so if it is insufficient, be concise, cite        *)
(* specifics), then the chunks labelled [Source 1] to [Source n] in        *)
(* retrieval order, then the question.                                     *)
C20_InstructionsThenSourcesThenQuestion ==
  Prompted =>
    /\ PartAt("instructions") < PartAt("context")
    /\ PartAt("context") < PartAt("question")
    /\ SourcesInRetrievalOrder

(* C20 amended: the prompt holds, in this order, the opening line, the     *)
(* chunks labelled [Source 1] to [Source n] in retrieval order, the        *)
(* question, the four instructions and the answer cue, and this is the     *)
(* prompt of the generation request.                                       *)
C20_PromptOrder ==
  Prompted =>
    /\ [i \in 1..Len(call.prompt) |-> call.prompt[i].part]
         = <<"intro", "context", "question", "instructions", "answer">>
    /\ Len(call.results) >= 1
    /\ SourcesInRetrievalOrder
    /\ call.prompt[3].query = call.query
    /\ \A e \in DOMAIN call.events :
         call.events[e].api = "generate" => call.events[e].prompt = call.prompt

C20_Witness ==
  /\ Prompted
  /\ Len(call.events) = 2
  /\ Len(call.events[2].prompt[2].sources) = 4
  /\ call.events[2].prompt[2].sources[4].label = 4
  /\ call.events[2].prompt[3].query = <<3, 3>>

----------------------------------------------------------------------------
(* Properties of reuse, checked under SpecReuse *)

(* The Retriever a constructor would build now, with the arguments the     *)
(* present one was built with                                              *)
FreshRetriever == RetrieverInit(disk, retriever.top_k, retriever.embedding_model)

(* The chatbot a constructor would build now with the same arguments *)
FreshChatbot == ChatbotInit(disk, "gsk", bot.model, bot.top_k)

(* What the last query returned is what the fresh instance returns *)
AsOnFreshInstance ==
  /\ retriever.status = "loaded" => retriever = FreshRetriever
  /\ bot.status = "ready" => bot = FreshChatbot.bot
  /\ sr.op = "search" => sr.out = search(FreshRetriever, sr.query, sr.k)
  /\ sr.op = "get_context" => sr.out = get_context(FreshRetriever, sr.query, sr.k)
  /\ stats # Nil => stats = get_stats(FreshRetriever)
  /\ Returned(call)
       => call.response = answer(FreshChatbot.bot, FreshChatbot.retriever,
                                 call.query, call.return_sources, FALSE,
                                 call.gen).response
  /\ (/\ Returned(call) /\ prev.outcome = "returned"
      /\ prev.query = call.query /\ prev.return_sources = call.return_sources
      /\ prev.gen = call.gen)
       => call.response = prev.response

(* A step leaves a ready chatbot and a loaded Retriever as they were *)
InstanceKept ==
  /\ (bot.status = "ready" => bot' = bot)
  /\ (retriever.status = "loaded" => retriever' = retriever)

(* C21: no step of answer, search, get_context or get_stats changes the    *)
(* configuration of a ready chatbot or the store and sidecar of a loaded   *)
(* Retriever, and after any sequence of queries each query returns what a  *)
(* freshly constructed instance returns for it.                            *)
C21_ReuseAcrossQueries ==
  /\ [][InstanceKept]_vars
  /\ []AsOnFreshInstance

C21_Witness ==
  /\ Returned(call)
  /\ prev.outcome = "returned"
  /\ prev.query # call.query
  /\ prev.gen.kind = "raise"
  /\ call.gen.kind = "ok"
  /\ Len(call.response.sources) = 4

----------------------------------------------------------------------------
(* Properties of the persisted store across runs, checked under SpecStats *)

BothFilesPresent == disk.index.st = "ok" /\ disk.sidecar.st = "ok"

(* C22: after any sequence of ingest runs, each completing or failing at   *)
(* any step, whenever vectorstore_dir holds an index and a sidecar the     *)
(* sidecar was written by the run that wrote the index and its num_chunks  *)
(* is the number of items of the index; a Retriever loaded at any moment   *)
(* holds a sidecar and an index of one run.                                *)
C22_SidecarBelongsToIndex ==
  /\ BothFilesPresent
       => /\ disk.sidecarBy = disk.indexBy
          /\ disk.sidecar.val.num_chunks = Len(disk.index.val.docs)
  /\ HoldsSidecar
       => /\ retriever.loadedBy.sidecar = retriever.loadedBy.index
          /\ retriever.metadata.num_chunks = Len(retriever.vectorstore.docs)

----------------------------------------------------------------------------
(* The order of the checks of the HTTP function, checked under SpecFront *)

(* C23: the handler tests the method, then the body, then the chatbot: a   *)
(* request that is neither POST nor OPTIONS gets 405 whatever its body, a  *)
(* POST with a malformed body gets 400 whether or not the chatbot is       *)
(* initialised, and no request answered with 400, 405 or the 200 of        *)
(* OPTIONS has led to a call of answer.                                    *)
C23_MethodThenBodyThenChatbot ==
  Handled =>
    /\ http.req.method \notin {"POST", "OPTIONS"}
         => StatusCode = 405 /\ Len(http.calls) = 0
    /\ http.req.method = "OPTIONS"
         => StatusCode = 200 /\ Len(http.calls) = 0
    /\ (IsPost /\ ~WellFormed(http.req.body))
         => StatusCode = 400 /\ Len(http.calls) = 0
    /\ StatusCode \in {400, 405} => Len(http.calls) = 0
    /\ Len(http.calls) > 0
         => IsPost /\ WellFormed(http.req.body) /\ bot.status = "ready"

C23_Witness ==
  /\ IsPost
  /\ bot.status = "failed"
  /\ http.req.body = InvalidBody
  /\ StatusCode = 400
  /\ Len(http.calls) = 0

----------------------------------------------------------------------------
(* Termination of the chat loop, checked under SpecLoop *)

(* C24: on every finite input stream the chat loop ends: at the first      *)
(* sentinel line, on a keyboard interrupt, or at the end of the input.     *)
C24_LoopEnds == (cli.pc = "chat") ~> (cli.pc = "exited")


----------------------------------------------------------------------------
(* The message history of the web UI, checked under SpecUi *)

Alternating(messages) ==
  \A i \in 1..Len(messages) :
    messages[i].role = (IF i % 2 = 1 THEN "user" ELSE "assistant")

(* C25: after every run of the web UI that took a prompt and drew its     *)
(* answer or its error message, the message history has even length and    *)
(* alternates user, assistant, user, assistant from a user message on;     *)
(* Clear Chat leaves it empty.                                             *)
C25_HistoryAlternates ==
  /\ ui.last \in {"answer", "error"}
       => Len(ui.messages) % 2 = 0 /\ Alternating(ui.messages)
  /\ ui.last = "cleared" => Len(ui.messages) = 0

====
